---- MODULE Spec2Model ----
(***************************************************************************)
(* Model of the ShareMe-GeoLead backend: the list store kept as one Excel  *)
(* file per list (backend/routers/lists.py) and the scraping pipeline that *)
(* appends to it (backend/services/scraper_service.py).                    *)
(*                                                                         *)
(* The file system is modelled at the level the races need: a directory    *)
(* maps names to files, every file has an inode identity, a rename swaps a *)
(* directory entry, an in-place write truncates the inode when the file is *)
(* opened and fills it when the writer is closed.                          *)
(***************************************************************************)
EXTENDS Integers, Sequences, FiniteSets, TLC

(***************************************************************************)
(* Bounds of the model.                                                    *)
(***************************************************************************)
MaxInitRows == 2      \* rows of a list when the scenario starts
MaxLogRows == 2       \* rows of the _ricerche sheet when the scenario starts
MaxKeywords == 2      \* keywords of a scrape request

(***************************************************************************)
(* Names.                                                                  *)
(***************************************************************************)
Lists == {"l1", "l2"}
Updaters == {"u1", "u2"}
Readers == {"r1"}
Creators == {"c1", "c2"}
Deleters == {"d1"}
Queries == {"q1"}
Runs == {"s1", "s2"}
TmpName == [u1 |-> "tmp_u1", u2 |-> "tmp_u2"]
TmpNames == {TmpName[u] : u \in Updaters}
Names == Lists \cup TmpNames

PlaceIds == {"a", "b", "c"}
Notes == {"n1"}
OptCols == {"Hide", "Call", "Interested", "Note"}
AllCols == {"Place_ID"} \cup OptCols

(***************************************************************************)
(* Sequence helpers.                                                       *)
(***************************************************************************)
IdsOf(rows) == {rows[i].id : i \in 1..Len(rows)}

(***************************************************************************)
(* Files.  A cell is a string: "T"/"F" for a boolean, "" for an empty cell *)
(* (pandas NaN, which every reader turns into '' with fillna).             *)
(***************************************************************************)
NoLog == [present |-> FALSE, rows |-> <<>>]

NoFile == [ino |-> "none", st |-> "none", cols |-> {}, rows |-> <<>>, log |-> NoLog]

MkFile(ino, cols, rows, log) ==
    [ino |-> ino, st |-> "ok", cols |-> cols, rows |-> rows, log |-> log]

Exists(f, name) == f[name].ino # "none"

Readable(f, name) == Exists(f, name) /\ f[name].st = "ok"

\* open(path, 'wb'): creates the file when absent, truncates it otherwise.
OpenTrunc(f, name, newIno) ==
    [f EXCEPT ![name] =
        [ino |-> IF Exists(f, name) THEN f[name].ino ELSE newIno,
         st |-> "trunc", cols |-> {}, rows |-> <<>>, log |-> NoLog]]

\* A write through an open handle lands in the inode, whatever name it has now
\* (none when the name was unlinked or replaced meanwhile).
WriteInode(f, ino, st, cols, rows, log) ==
    [n \in Names |->
        IF f[n].ino = ino
        THEN [ino |-> ino, st |-> st, cols |-> cols, rows |-> rows, log |-> log]
        ELSE f[n]]

\* Bytes already in the inode that this handle did not write: the inode was
\* filled by another writer after this handle truncated it.
ForeignBytes(f, ino) == \E n \in Names : f[n].ino = ino /\ f[n].st # "trunc"

\* os.rename(src, dst): dst now names src's inode.
Rename(f, src, dst) == [f EXCEPT ![dst] = f[src], ![src] = NoFile]

Unlink(f, name) == [f EXCEPT ![name] = NoFile]

(***************************************************************************)
(* Dataframes: the columns and the rows of the main sheet.                 *)
(***************************************************************************)
SetCell(row, col, v) ==
    CASE col = "Hide" -> [row EXCEPT !.hide = v]
      [] col = "Call" -> [row EXCEPT !.call = v]
      [] col = "Interested" -> [row EXCEPT !.interested = v]
      [] col = "Note" -> [row EXCEPT !.note = v]

\* if col not in df.columns: df[col] = default
EnsureCol(df, col, default) ==
    IF col \in df.cols THEN df
    ELSE [cols |-> df.cols \cup {col},
          rows |-> [i \in 1..Len(df.rows) |-> SetCell(df.rows[i], col, default)]]

\* df.loc[df['Place_ID'].astype(str) == place_id, col] = v
SetWhere(df, pid, col, v) ==
    [df EXCEPT !.rows = [i \in 1..Len(df.rows) |->
        IF df.rows[i].id = pid THEN SetCell(df.rows[i], col, v) ELSE df.rows[i]]]

NoDf == [cols |-> {}, rows |-> <<>>]

VARIABLES
    fs,      \* directory of backend/data/lists: name -> file
    locks,   \* _file_locks: list -> "free" or the request holding the lock
    upd,     \* update_row / update_note requests
    rdr,     \* get_list_content requests
    crt,     \* create_list requests
    run,     \* run_scraping generators
    cfg,     \* the scenario: what the environment may do
    probe,   \* the arguments and the result of a function applied on its own
    del,     \* delete_list requests
    qry      \* get_lists and get_searches requests

vars == <<fs, locks, upd, rdr, crt, run, cfg, probe, del, qry>>

(***************************************************************************)
(* update_row and update_note.                                             *)
(***************************************************************************)
UpdIdle == [pc |-> "off", list |-> "l1", kind |-> "row", pid |-> "a", action |-> "hide",
            value |-> "T", df |-> NoDf, slog |-> NoLog, status |-> 0]

ColOfAction(action) ==
    IF action = "hide" THEN "Hide" ELSE IF action = "call" THEN "Call" ELSE "Interested"

TargetCol(u) == IF u.kind = "note" THEN "Note" ELSE ColOfAction(u.action)

UpdFinish(u, status) ==
    upd' = [upd EXCEPT ![u] = [@ EXCEPT !.pc = "done", !.status = status,
                                       !.df = NoDf, !.slog = NoLog]]

\* The checks before the lock without the validation of the action.
UpdStartAnyAction(u) ==
    /\ upd[u].pc = "start"
    /\ IF ~Exists(fs, upd[u].list) THEN UpdFinish(u, 404)
       ELSE upd' = [upd EXCEPT ![u].pc = "lock"]
    /\ UNCHANGED <<fs, locks, rdr, crt, run, cfg, probe, del, qry>>

\* lines 161-164 / 200-206: the checks made before the lock is taken.
UpdStart(u) ==
    /\ upd[u].pc = "start"
    /\ IF ~Exists(fs, upd[u].list) THEN UpdFinish(u, 404)
       ELSE IF upd[u].kind = "row" /\ upd[u].action \notin {"hide", "call", "interested"}
       THEN UpdFinish(u, 400)
       ELSE upd' = [upd EXCEPT ![u].pc = "lock"]
    /\ UNCHANGED <<fs, locks, rdr, crt, run, cfg, probe, del, qry>>

\* A lock that never makes a request wait.
LockFreeNever(l) == TRUE

\* with _get_file_lock(filepath): blocking acquisition.
LockFree(l) == locks[l] = "free"

UpdAcquire(u) ==
    /\ upd[u].pc = "lock"
    /\ LockFree(upd[u].list)
    /\ locks' = [locks EXCEPT ![upd[u].list] = u]
    /\ upd' = [upd EXCEPT ![u].pc = "read"]
    /\ UNCHANGED <<fs, rdr, crt, run, cfg, probe, del, qry>>

Release(u) == locks' = [locks EXCEPT ![upd[u].list] = "free"]

\* The dataframe after the column backfill of the handler.
UpdBackfill(u, df) ==
    IF u.kind = "note" THEN EnsureCol(df, "Note", "")
    ELSE EnsureCol(EnsureCol(EnsureCol(df, "Hide", "F"), "Call", "F"), "Interested", "F")

\* The read step that returns from its failures without leaving the with
\* block: the lock stays taken.
UpdReadKeepsLock(u) ==
    /\ upd[u].pc = "read"
    /\ LET l == upd[u].list
           f == fs[l]
           df == UpdBackfill(upd[u], [cols |-> f.cols, rows |-> f.rows])
       IN IF ~Readable(fs, l) \/ "Place_ID" \notin f.cols
          THEN UpdFinish(u, 500) /\ UNCHANGED locks
          ELSE IF upd[u].pid \notin IdsOf(df.rows)
          THEN UpdFinish(u, 404) /\ UNCHANGED locks
          ELSE /\ upd' = [upd EXCEPT ![u].pc = "readlog",
                               ![u].df = SetWhere(df, upd[u].pid, TargetCol(upd[u]), upd[u].value)]
               /\ UNCHANGED locks
    /\ UNCHANGED <<fs, rdr, crt, run, cfg, probe, del, qry>>

\* lines 168-180 / 210-235: read the main sheet, find the row, change it.
UpdRead(u) ==
    /\ upd[u].pc = "read"
    /\ LET l == upd[u].list
           f == fs[l]
           df == UpdBackfill(upd[u], [cols |-> f.cols, rows |-> f.rows])
       IN IF ~Readable(fs, l) \/ "Place_ID" \notin f.cols
          THEN UpdFinish(u, 500) /\ Release(u)
          ELSE IF upd[u].pid \notin IdsOf(df.rows)
          THEN UpdFinish(u, 404) /\ Release(u)
          ELSE /\ upd' = [upd EXCEPT ![u].pc = "readlog",
                               ![u].df = SetWhere(df, upd[u].pid, TargetCol(upd[u]), upd[u].value)]
               /\ UNCHANGED locks
    /\ UNCHANGED <<fs, rdr, crt, run, cfg, probe, del, qry>>

\* lines 118-125: back up the _ricerche sheet; any failure means "no sheet".
ReadLog(f, name) == IF Readable(f, name) /\ f[name].log.present THEN f[name].log ELSE NoLog

UpdReadLog(u) ==
    /\ upd[u].pc = "readlog"
    /\ upd' = [upd EXCEPT ![u].pc = "writetmp", ![u].slog = ReadLog(fs, upd[u].list)]
    /\ UNCHANGED <<fs, locks, rdr, crt, run, cfg, probe, del, qry>>

\* lines 128-143: mkstemp in the lists directory, main sheet, then _ricerche.
UpdWriteTmp(u) ==
    /\ upd[u].pc = "writetmp"
    /\ \/ /\ fs' = [fs EXCEPT ![TmpName[u]] = MkFile(u, upd[u].df.cols, upd[u].df.rows, upd[u].slog)]
          /\ upd' = [upd EXCEPT ![u].pc = "move"]
          /\ UNCHANGED locks
       \/ /\ cfg.faults
          /\ UpdFinish(u, 500) /\ Release(u)
          /\ UNCHANGED fs
    /\ UNCHANGED <<rdr, crt, run, cfg, probe, del, qry>>

\* line 146: shutil.move(tmp_path, filepath); lines 147-151 on failure.
UpdMove(u) ==
    /\ upd[u].pc = "move"
    /\ \/ /\ fs' = Rename(fs, TmpName[u], upd[u].list)
          /\ UpdFinish(u, 200)
       \/ /\ cfg.faults
          /\ fs' = Unlink(fs, TmpName[u])
          /\ UpdFinish(u, 500)
    /\ Release(u)
    /\ UNCHANGED <<rdr, crt, run, cfg, probe, del, qry>>

(***************************************************************************)
(* get_list_content.                                                       *)
(***************************************************************************)
RdIdle == [pc |-> "off", list |-> "l1", status |-> 0, saw |-> "none", data |-> <<>>]

\* lines 75-91: backfill of the optional columns, booleans forced to bool.
BoolCell(v) == IF v = "T" THEN "T" ELSE "F"

ReadAllRows(f) ==
    [i \in 1..Len(f.rows) |->
        [f.rows[i] EXCEPT !.hide = BoolCell(@), !.call = BoolCell(@),
                          !.interested = BoolCell(@)]]

\* lines 66-69
RdStart(r) ==
    /\ rdr[r].pc = "start"
    /\ IF ~Exists(fs, rdr[r].list)
       THEN rdr' = [rdr EXCEPT ![r].pc = "done", ![r].status = 404]
       ELSE rdr' = [rdr EXCEPT ![r].pc = "read"]
    /\ UNCHANGED <<fs, locks, upd, crt, run, cfg, probe, del, qry>>

\* lines 71-95
RdRead(r) ==
    /\ rdr[r].pc = "read"
    /\ LET l == rdr[r].list
       IN IF Readable(fs, l)
          THEN rdr' = [rdr EXCEPT ![r].pc = "done", ![r].status = 200, ![r].saw = "ok",
                                  ![r].data = ReadAllRows(fs[l])]
          ELSE rdr' = [rdr EXCEPT ![r].pc = "done", ![r].status = 500,
                                  ![r].saw = fs[l].st]
    /\ UNCHANGED <<fs, locks, upd, crt, run, cfg, probe, del, qry>>

(***************************************************************************)
(* create_list: to_excel straight onto the final path.                     *)
(***************************************************************************)
CrtIdle == [pc |-> "off", list |-> "l1", status |-> 0, fd |-> "none"]

\* lines 41-49
CrtStart(c) ==
    /\ crt[c].pc = "start"
    /\ IF Exists(fs, crt[c].list)
       THEN crt' = [crt EXCEPT ![c].pc = "done", ![c].status = 409]
       ELSE crt' = [crt EXCEPT ![c].pc = "open"]
    /\ UNCHANGED <<fs, locks, upd, rdr, run, cfg, probe, del, qry>>

\* line 58, opening the workbook file for writing
CrtOpen(c) ==
    /\ crt[c].pc = "open"
    /\ fs' = OpenTrunc(fs, crt[c].list, c)
    /\ crt' = [crt EXCEPT ![c].pc = "write", ![c].fd = fs'[crt[c].list].ino]
    /\ UNCHANGED <<locks, upd, rdr, run, cfg, probe, del, qry>>

\* The state of an inode after a handle wrote a whole workbook from offset 0:
\* the workbook, unless another writer's longer content leaves a tail behind it.
AfterWrite(f, ino) == IF ForeignBytes(f, ino) THEN {"ok", "corrupt"} ELSE {"ok"}

\* line 58, saving the header-only workbook; lines 59-61
CrtWrite(c) ==
    /\ crt[c].pc = "write"
    /\ \E st \in AfterWrite(fs, crt[c].fd) :
          fs' = WriteInode(fs, crt[c].fd, st, AllCols, <<>>, NoLog)
    /\ crt' = [crt EXCEPT ![c].pc = "done", ![c].status = 200, ![c].fd = "none"]
    /\ UNCHANGED <<locks, upd, rdr, run, cfg, probe, del, qry>>

(***************************************************************************)
(* delete_list.                                                            *)
(***************************************************************************)
DelIdle == [pc |-> "off", list |-> "l1", status |-> 0]

\* lines 102-103
DelStart(d) ==
    /\ del[d].pc = "start"
    /\ IF ~Exists(fs, del[d].list)
       THEN del' = [del EXCEPT ![d].pc = "done", ![d].status = 404]
       ELSE del' = [del EXCEPT ![d].pc = "remove"]
    /\ UNCHANGED <<fs, locks, upd, rdr, crt, run, cfg, probe, qry>>

\* lines 105-109: os.remove, which raises when the file is gone meanwhile.
DelRemove(d) ==
    /\ del[d].pc = "remove"
    /\ \/ /\ Exists(fs, del[d].list)
          /\ fs' = Unlink(fs, del[d].list)
          /\ del' = [del EXCEPT ![d].pc = "done", ![d].status = 200]
       \/ /\ ~Exists(fs, del[d].list) \/ cfg.faults
          /\ del' = [del EXCEPT ![d].pc = "done", ![d].status = 500]
          /\ UNCHANGED fs
    /\ UNCHANGED <<locks, upd, rdr, crt, run, cfg, probe, qry>>

(***************************************************************************)
(* get_lists and get_searches.                                             *)
(***************************************************************************)
QryIdle == [pc |-> "off", kind |-> "names", list |-> "l1", status |-> 0,
            names |-> {}, rows |-> <<>>]

\* glob.glob(os.path.join(LISTS_DIR, "*.xlsx")): every entry of the directory
\* whose name ends in .xlsx, the files of mkstemp(suffix='.xlsx') included.
Glob(f) == {n \in Names : Exists(f, n)}

\* lines 31-36
GetLists(q) ==
    /\ qry[q].pc = "start"
    /\ qry[q].kind = "names"
    /\ qry' = [qry EXCEPT ![q].pc = "done", ![q].status = 200, ![q].names = Glob(fs)]
    /\ UNCHANGED <<fs, locks, upd, rdr, crt, run, cfg, probe, del>>

\* The start of get_searches without the test for the list file.
SearchesStartNoCheck(q) ==
    /\ qry[q].pc = "start"
    /\ qry[q].kind = "searches"
    /\ qry' = [qry EXCEPT ![q].pc = "read"]
    /\ UNCHANGED <<fs, locks, upd, rdr, crt, run, cfg, probe, del>>

\* lines 251-254
SearchesStart(q) ==
    /\ qry[q].pc = "start"
    /\ qry[q].kind = "searches"
    /\ IF ~Exists(fs, qry[q].list)
       THEN qry' = [qry EXCEPT ![q].pc = "done", ![q].status = 404]
       ELSE qry' = [qry EXCEPT ![q].pc = "read"]
    /\ UNCHANGED <<fs, locks, upd, rdr, crt, run, cfg, probe, del>>

\* lines 256-260: the sheet _ricerche, or [] when reading it raises.
SearchesRead(q) ==
    /\ qry[q].pc = "read"
    /\ qry' = [qry EXCEPT ![q].pc = "done", ![q].status = 200,
                          ![q].rows = ReadLog(fs, qry[q].list).rows]
    /\ UNCHANGED <<fs, locks, upd, rdr, crt, run, cfg, probe, del>>

(***************************************************************************)
(* generate_grid_points: the lattice offsets (i, j) kept by the planner,   *)
(* in the order of the two nested loops.                                   *)
(***************************************************************************)
CeilDiv(a, b) == (a + b - 1) \div b

AllOffsets(n) ==
    [k \in 1..((2 * n + 1) * (2 * n + 1)) |->
        <<((k - 1) \div (2 * n + 1)) - n, ((k - 1) % (2 * n + 1)) - n>>]

\* The planner that keeps only the offsets strictly inside the circle.
InDiskStrict(o, radius, step) ==
    (o[1] * step) * (o[1] * step) + (o[2] * step) * (o[2] * step) < radius * radius

\* math.sqrt(x_offset_m**2 + y_offset_m**2) <= radius_m
InDisk(o, radius, step) ==
    (o[1] * step) * (o[1] * step) + (o[2] * step) * (o[2] * step) <= radius * radius

generate_grid_points(radius, step) ==
    SelectSeq(AllOffsets(CeilDiv(radius, step)), LAMBDA o : InDisk(o, radius, step))

\* One and a half steps rounded to the nearest integer, halves upwards.
SearchRadiusRounded(step) == (3 * step + 1) \div 2

\* int(grid_step_m * 1.5)
SearchRadius(step) == (3 * step) \div 2

\* lines 73-79
GridPoints(radius, step) ==
    IF radius <= SearchRadius(step) THEN <<(<<0, 0>>)>>
    ELSE generate_grid_points(radius, step)

QueryRadius(radius, step) ==
    IF radius <= SearchRadius(step) THEN radius ELSE SearchRadius(step)

(***************************************************************************)
(* int((k / n) * 100) in IEEE double arithmetic: the floor of 100k/n,      *)
(* except that 0.29, 0.57 and 0.58 times 100 fall just below the integer.  *)
(***************************************************************************)
\* The share of the steps still to do instead of the steps done.
ProgressPctRemaining(k, n) == (100 * (n - k)) \div n

\* The percentage computed before the step counter is incremented twice.
ProgressPctAhead(k, n) == IF k + 1 >= n THEN 100 ELSE (100 * (k + 1)) \div n

ProgressPct(k, n) ==
    IF 100 * k \in {29 * n, 57 * n, 58 * n}
    THEN ((100 * k) \div n) - 1
    ELSE (100 * k) \div n

(***************************************************************************)
(* Events yielded by run_scraping.                                         *)
(***************************************************************************)
Ev(type, subtype, value) == [type |-> type, subtype |-> subtype, value |-> value, data |-> <<>>]

LogEv(tag, n) == Ev("log", tag, n)

ProgressEv(subtype, value) == Ev("progress", subtype, value)

ErrorEv(tag) == Ev("error", tag, 0)

\* df.fillna('').to_dict(orient='records')
DoneEv(rows) == [type |-> "done", subtype |-> "", value |-> Len(rows), data |-> rows]

(***************************************************************************)
(* The deduplication of lines 117-132.                                     *)
(***************************************************************************)
\* The ledger without the check against the identifiers of the list.
AdmitNoKnown(id, seen, known) ==
    IF id = "" THEN "skip"
    ELSE IF id \in seen THEN "duprun"
    ELSE "accept"

\* The ledger that looks into the list before it looks into the run.
AdmitKnownFirst(id, seen, known) ==
    IF id = "" THEN "skip"
    ELSE IF id \in known THEN "dupdb"
    ELSE IF id \in seen THEN "duprun"
    ELSE "accept"

Admit(id, seen, known) ==
    IF id = "" THEN "skip"
    ELSE IF id \in seen THEN "duprun"
    ELSE IF id \in known THEN "dupdb"
    ELSE "accept"

Ledger0 == [seen |-> {}, places |-> <<>>, dupRun |-> 0, dupDb |-> 0]

\* The ledger that does not remember the identifiers it accepts.
AdmitStubForgets(led, id, known, kw) ==
    LET out == Admit(id, led.seen, known)
    IN CASE out = "skip" -> led
         [] out = "duprun" -> [led EXCEPT !.dupRun = @ + 1]
         [] out = "dupdb" -> [led EXCEPT !.seen = @ \cup {id}, !.dupDb = @ + 1]
         [] out = "accept" -> [led EXCEPT !.places = Append(@, [id |-> id, kw |-> kw])]

AdmitStub(led, id, known, kw) ==
    LET out == Admit(id, led.seen, known)
    IN CASE out = "skip" -> led
         [] out = "duprun" -> [led EXCEPT !.dupRun = @ + 1]
         [] out = "dupdb" -> [led EXCEPT !.seen = @ \cup {id}, !.dupDb = @ + 1]
         [] out = "accept" -> [led EXCEPT !.seen = @ \cup {id},
                                           !.places = Append(@, [id |-> id, kw |-> kw])]

RECURSIVE AdmitAll(_, _, _, _)
AdmitAll(led, stubs, known, kw) ==
    IF stubs = <<>> THEN led
    ELSE AdmitAll(AdmitStub(led, Head(stubs), known, kw), Tail(stubs), known, kw)

(***************************************************************************)
(* run_scraping.                                                           *)
(***************************************************************************)
MaxPages == 3

NoCalls == [geocode |-> 0, search |-> 0, details |-> 0, writes |-> 0]

RunIdle ==
    [pc |-> "off", list |-> "l1", nkw |-> 1, radius |-> 0, step |-> 1,
     existing |-> NoDf, known |-> {}, geo |-> "", npoints |-> 0,
     led |-> Ledger0, kw |-> 0, pt |-> 0, token |-> "", pages |-> 0, gridStep |-> 0,
     di |-> 0, final |-> <<>>, fd |-> "none", events |-> <<>>, calls |-> NoCalls,
     reqs |-> <<>>]

Emit(r, evs) == run[r].events \o evs

\* A return that still falls into the outer exception handler.
EndedThenCritical(rec, evs) ==
    [rec EXCEPT !.pc = "end", !.events = @ \o evs \o <<ErrorEv("critical")>>, !.known = {},
                !.token = "", !.pages = 0, !.kw = 0, !.pt = 0, !.di = 0, !.fd = "none"]

\* The generator has returned: its frame is gone, what it yielded stays.
Ended(rec, evs) ==
    [rec EXCEPT !.pc = "end", !.events = @ \o evs, !.known = {}, !.token = "",
                !.pages = 0, !.kw = 0, !.pt = 0, !.di = 0, !.fd = "none"]

\* A start that does not look for the list file.
RunStartNoCheck(r) ==
    /\ run[r].pc = "start"
    /\ run' = [run EXCEPT ![r].pc = "load", ![r].events = Emit(r, <<LogEv("loading", 0)>>)]
    /\ UNCHANGED <<fs, locks, upd, rdr, crt, cfg, probe, del, qry>>

\* lines 41-48
RunStart(r) ==
    /\ run[r].pc = "start"
    /\ IF ~Exists(fs, run[r].list)
       THEN run' = [run EXCEPT ![r].pc = "end", ![r].events = Emit(r, <<ErrorEv("nolist")>>)]
       ELSE run' = [run EXCEPT ![r].pc = "load", ![r].events = Emit(r, <<LogEv("loading", 0)>>)]
    /\ UNCHANGED <<fs, locks, upd, rdr, crt, cfg, probe, del, qry>>

\* set(existing_df['Place_ID'].dropna().astype(str))
KnownIds(rows) == IdsOf(rows) \ {""}

\* lines 50-63
RunLoadStore(r) ==
    /\ run[r].pc = "load"
    /\ LET l == run[r].list
           known == KnownIds(fs[l].rows)
       IN IF ~Readable(fs, l)
          THEN run' = [run EXCEPT ![r].pc = "end",
                                  ![r].events = Emit(r, <<ErrorEv("read")>>)]
          ELSE run' = [run EXCEPT ![r].pc = "geocode",
                                  ![r].existing = [cols |-> fs[l].cols \cup {"Place_ID"},
                                                   rows |-> fs[l].rows],
                                  ![r].known = known,
                                  ![r].events = Emit(r, <<LogEv("loaded", Cardinality(known)),
                                                          LogEv("city", 0)>>)]
    /\ UNCHANGED <<fs, locks, upd, rdr, crt, cfg, probe, del, qry>>

\* The end of the search without the early return of lines 143-147: with no
\* candidate the detail loop has nothing to do and Persist follows.
AfterSearchNoReturn(rec) ==
    LET n == Len(rec.led.places)
    IN [rec EXCEPT !.pc = IF n = 0 THEN "persist" ELSE "details",
                   !.di = 0, !.token = "", !.pages = 0,
                   !.events = @ \o <<LogEv("searchdone", n), LogEv("fetching", 0),
                                     ProgressEv("details", 0)>>
                                \o (IF n = 0 THEN <<LogEv("saving", 0)>> ELSE <<>>)]

\* lines 143-152: after the two loops.
AfterSearch(rec) ==
    LET n == Len(rec.led.places)
    IN IF n = 0
       THEN Ended(rec, <<LogEv("searchdone", n), LogEv("nonew", 0), DoneEv(rec.existing.rows)>>)
       ELSE [rec EXCEPT !.pc = "details", !.di = 0, !.token = "", !.pages = 0,
                        !.events = @ \o <<LogEv("searchdone", n), LogEv("fetching", 0),
                                          ProgressEv("details", 0)>>]

\* lines 139-141, then the head of the next iteration (lines 94-99).
PairDone(rec) ==
    LET step == rec.gridStep + 1
        total == rec.nkw * rec.npoints
        prog == ProgressEv("grid", ProgressPct(step, total))
        r1 == [rec EXCEPT !.gridStep = step, !.token = "", !.pages = 0, !.events = @ \o <<prog>>]
    IN IF rec.pt + 1 < rec.npoints
       THEN [r1 EXCEPT !.pt = @ + 1,
                       !.events = IF (rec.pt + 1) % 5 = 0
                                  THEN @ \o <<LogEv("advance", rec.pt + 1)>> ELSE @]
       ELSE IF rec.kw < rec.nkw
       THEN [r1 EXCEPT !.kw = @ + 1, !.pt = 0, !.events = @ \o <<LogEv("keyword", rec.kw + 1)>>]
       ELSE AfterSearch(r1)

\* The geocoding step without the test of line 65: an empty result goes on
\* to the grid as a found one does.
RunGeocodeNoCheck(r) ==
    /\ run[r].pc = "geocode"
    /\ \E out \in cfg.geo :
        LET rec == [run[r] EXCEPT !.calls.geocode = @ + 1, !.geo = out]
            pts == GridPoints(rec.radius, rec.step)
            r1 == [rec EXCEPT !.npoints = Len(pts),
                              !.events = @ \o <<LogEv("coords", 0), LogEv("grid", Len(pts)),
                                                ProgressEv("grid", 0)>>]
        IN run' = [run EXCEPT ![r] =
            CASE out = "raise" -> Ended(rec, <<ErrorEv("critical")>>)
              [] out # "raise" /\ rec.step = 0 /\ rec.radius > 0 ->
                    Ended([rec EXCEPT !.events = @ \o <<LogEv("coords", 0)>>],
                          <<ErrorEv("critical")>>)
              [] out # "raise" /\ ~(rec.step = 0 /\ rec.radius > 0) ->
                    IF r1.nkw = 0 THEN AfterSearch(r1)
                    ELSE [r1 EXCEPT !.pc = "search", !.kw = 1, !.pt = 0,
                                    !.events = @ \o <<LogEv("keyword", 1)>>]]
    /\ UNCHANGED <<fs, locks, upd, rdr, crt, cfg, probe, del, qry>>

\* lines 64-95: geocode, the grid, the first progress event.
RunGeocode(r) ==
    /\ run[r].pc = "geocode"
    /\ \E out \in cfg.geo :
        LET rec == [run[r] EXCEPT !.calls.geocode = @ + 1, !.geo = out]
            pts == GridPoints(rec.radius, rec.step)
            r1 == [rec EXCEPT !.npoints = Len(pts),
                              !.events = @ \o <<LogEv("coords", 0), LogEv("grid", Len(pts)),
                                                ProgressEv("grid", 0)>>]
        IN run' = [run EXCEPT ![r] =
            CASE out = "notfound" -> Ended(rec, <<ErrorEv("geocode")>>)
              [] out = "raise" -> Ended(rec, <<ErrorEv("critical")>>)
              [] out = "found" /\ rec.step = 0 /\ rec.radius > 0 ->
                    Ended([rec EXCEPT !.events = @ \o <<LogEv("coords", 0)>>],
                          <<ErrorEv("critical")>>)
              [] out = "found" /\ ~(rec.step = 0 /\ rec.radius > 0) ->
                    IF r1.nkw = 0 THEN AfterSearch(r1)
                    ELSE [r1 EXCEPT !.pc = "search", !.kw = 1, !.pt = 0,
                                    !.events = @ \o <<LogEv("keyword", 1)>>]]
    /\ UNCHANGED <<fs, locks, upd, rdr, crt, cfg, probe, del, qry>>

\* lines 104-112: the places_nearby call of a pair that has fetched `pages`
\* pages: it carries the stored token, after time.sleep(2), when there is one.
Request(rec, got) ==
    (IF rec.pages = 0 THEN <<>> ELSE rec.reqs)
        \o <<[sent |-> rec.token, paused |-> rec.token # "", got |-> got]>>

\* The pagination loop without the break of lines 136-137.
RunSearchPageNoBreak(r) ==
    /\ run[r].pc = "search"
    /\ LET rec == [run[r] EXCEPT !.calls.search = @ + 1]
       IN \/ \E stubs \in cfg.pages, tok \in cfg.tokens :
               LET r1 == [rec EXCEPT !.led = AdmitAll(@, stubs, rec.known, rec.kw),
                                     !.token = tok, !.pages = @ + 1,
                                     !.reqs = Request(rec, tok)]
               IN run' = [run EXCEPT ![r] =
                     IF r1.pages >= MaxPages THEN PairDone(r1) ELSE r1]
          \/ /\ cfg.searchRaise
             /\ run' = [run EXCEPT ![r] =
                   Ended([rec EXCEPT !.reqs = Request(rec, "raise")], <<ErrorEv("critical")>>)]
    /\ UNCHANGED <<fs, locks, upd, rdr, crt, cfg, probe, del, qry>>

\* The pagination loop without the cap of three pages.
RunSearchPageNoCap(r) ==
    /\ run[r].pc = "search"
    /\ LET rec == [run[r] EXCEPT !.calls.search = @ + 1]
       IN \/ \E stubs \in cfg.pages, tok \in cfg.tokens :
               LET r1 == [rec EXCEPT !.led = AdmitAll(@, stubs, rec.known, rec.kw),
                                     !.token = tok, !.pages = @ + 1,
                                     !.reqs = Request(rec, tok)]
               IN run' = [run EXCEPT ![r] = IF tok = "" THEN PairDone(r1) ELSE r1]
          \/ /\ cfg.searchRaise
             /\ run' = [run EXCEPT ![r] =
                   Ended([rec EXCEPT !.reqs = Request(rec, "raise")], <<ErrorEv("critical")>>)]
    /\ UNCHANGED <<fs, locks, upd, rdr, crt, cfg, probe, del, qry>>

\* lines 104-137: one places_nearby call and the stubs of its page.
RunSearchPage(r) ==
    /\ run[r].pc = "search"
    /\ LET rec == [run[r] EXCEPT !.calls.search = @ + 1]
       IN \/ \E stubs \in cfg.pages, tok \in cfg.tokens :
               LET r1 == [rec EXCEPT !.led = AdmitAll(@, stubs, rec.known, rec.kw),
                                     !.token = tok, !.pages = @ + 1,
                                     !.reqs = Request(rec, tok)]
               IN run' = [run EXCEPT ![r] =
                     IF tok = "" \/ r1.pages >= MaxPages THEN PairDone(r1) ELSE r1]
          \/ /\ cfg.searchRaise
             /\ run' = [run EXCEPT ![r] =
                   Ended([rec EXCEPT !.reqs = Request(rec, "raise")], <<ErrorEv("critical")>>)]
    /\ UNCHANGED <<fs, locks, upd, rdr, crt, cfg, probe, del, qry>>

\* lines 167-179
NewRecord(place) ==
    [id |-> place.id, hide |-> "F", call |-> "F", interested |-> "", note |-> "",
     kw |-> place.kw]

\* The detail loop whose try block is around the whole loop: a fetch that
\* raises ends the run.
RunDetailFatal(r) ==
    /\ run[r].pc = "details"
    /\ \E out \in cfg.detail :
        LET rec == [run[r] EXCEPT !.calls.details = @ + 1]
            i == rec.di
            total == Len(rec.led.places)
            head == IF i % 10 = 0 THEN <<LogEv("detailprog", i)>> ELSE <<>>
            prog == <<ProgressEv("details", ProgressPct(i + 1, total))>>
            tail == IF i + 1 = total THEN <<LogEv("saving", 0)>> ELSE <<>>
        IN run' = [run EXCEPT ![r] =
              IF out = "ok"
              THEN [rec EXCEPT !.final = Append(@, NewRecord(rec.led.places[i + 1])),
                               !.di = i + 1,
                               !.pc = IF i + 1 = total THEN "persist" ELSE "details",
                               !.events = @ \o head \o prog \o tail]
              ELSE Ended([rec EXCEPT !.events = @ \o head], <<ErrorEv("critical")>>)]
    /\ UNCHANGED <<fs, locks, upd, rdr, crt, cfg, probe, del, qry>>

\* lines 155-186: one iteration of the detail loop.
RunDetail(r) ==
    /\ run[r].pc = "details"
    /\ \E out \in cfg.detail :
        LET rec == [run[r] EXCEPT !.calls.details = @ + 1]
            i == rec.di
            total == Len(rec.led.places)
            head == IF i % 10 = 0 THEN <<LogEv("detailprog", i)>> ELSE <<>>
            body == IF out = "ok" THEN <<>> ELSE <<LogEv("detailerr", i)>>
            prog == <<ProgressEv("details", ProgressPct(i + 1, total))>>
            tail == IF i + 1 = total THEN <<LogEv("saving", 0)>> ELSE <<>>
        IN run' = [run EXCEPT ![r] =
              [rec EXCEPT !.final = IF out = "ok"
                                    THEN Append(@, NewRecord(rec.led.places[i + 1])) ELSE @,
                          !.di = i + 1,
                          !.pc = IF i + 1 = total THEN "persist" ELSE "details",
                          !.events = @ \o head \o body \o prog \o tail]]
    /\ UNCHANGED <<fs, locks, upd, rdr, crt, cfg, probe, del, qry>>

\* The concatenation that keeps only the new records.
ConcatNewOnly(existing, final) ==
    [cols |-> existing.cols \cup (IF final = <<>> THEN {} ELSE {"Place_ID", "Hide", "Call"}),
     rows |-> final]

\* The concatenation with the new records first.
ConcatNewFirst(existing, final) ==
    [cols |-> existing.cols \cup (IF final = <<>> THEN {} ELSE {"Place_ID", "Hide", "Call"}),
     rows |-> final \o existing.rows]

\* pd.concat([existing_df, new_df], ignore_index=True)
Concat(existing, final) ==
    [cols |-> existing.cols \cup (IF final = <<>> THEN {} ELSE {"Place_ID", "Hide", "Call"}),
     rows |-> existing.rows \o final]

\* lines 190-194: to_excel opens the list file itself for writing.
RunPersistOpen(r) ==
    /\ run[r].pc = "persist"
    /\ \/ /\ fs' = OpenTrunc(fs, run[r].list, r)
          /\ run' = [run EXCEPT ![r].pc = "writing", ![r].fd = fs'[run[r].list].ino,
                                  ![r].calls.writes = @ + 1]
       \/ /\ cfg.faults
          /\ run' = [run EXCEPT ![r] = Ended(@, <<ErrorEv("save")>>)]
          /\ UNCHANGED fs
    /\ UNCHANGED <<locks, upd, rdr, crt, cfg, probe, del, qry>>

\* lines 194-202: the workbook is written through the open handle.
RunPersistWrite(r) ==
    /\ run[r].pc = "writing"
    /\ LET df == Concat(run[r].existing, run[r].final)
       IN \/ /\ \E st \in AfterWrite(fs, run[r].fd) :
                   fs' = WriteInode(fs, run[r].fd, st, df.cols, df.rows, NoLog)
             /\ run' = [run EXCEPT ![r] =
                   Ended(@, <<LogEv("success", Len(run[r].final)), DoneEv(df.rows)>>)]
          \/ /\ cfg.faults
             /\ \/ fs' = WriteInode(fs, run[r].fd, "corrupt", {}, <<>>, NoLog)
                \/ UNCHANGED fs
             /\ run' = [run EXCEPT ![r] = Ended(@, <<ErrorEv("save")>>)]
    /\ UNCHANGED <<locks, upd, rdr, crt, cfg, probe, del, qry>>

(***************************************************************************)
(* The ledger and the planner applied on their own: the ledger is fed one  *)
(* stub at a time, the planner is called once on a radius and a step.      *)
(***************************************************************************)
MaxStubs == 4

MaxRadius == 12

MaxStep == 5

NoProbe ==
    [kind |-> "none", known |-> {}, led |-> Ledger0, stubs |-> <<>>, outs |-> <<>>,
     radius |-> 0, step |-> 1, points |-> <<>>, query |-> 0]

\* lines 117-132 for one more stub of a page
LedgerFeed ==
    /\ probe.kind = "ledger"
    /\ Len(probe.stubs) < MaxStubs
    /\ \E id \in PlaceIds \cup {""} :
          probe' = [probe EXCEPT !.stubs = Append(@, id),
                                 !.outs = Append(@, Admit(id, probe.led.seen, probe.known)),
                                 !.led = AdmitStub(@, id, probe.known, 1)]
    /\ UNCHANGED <<fs, locks, upd, rdr, crt, run, cfg, del, qry>>

\* a call of generate_grid_points
PlanGrid ==
    /\ probe.kind = "grid"
    /\ probe' = [probe EXCEPT !.kind = "gridDone",
                              !.points = generate_grid_points(probe.radius, probe.step)]
    /\ UNCHANGED <<fs, locks, upd, rdr, crt, run, cfg, del, qry>>

\* lines 73-79: the grid and the radius of the queries of a run
PlanSearch ==
    /\ probe.kind = "search"
    /\ probe' = [probe EXCEPT !.kind = "searchDone",
                              !.points = GridPoints(probe.radius, probe.step),
                              !.query = QueryRadius(probe.radius, probe.step)]
    /\ UNCHANGED <<fs, locks, upd, rdr, crt, run, cfg, del, qry>>

(***************************************************************************)
(* Scenarios: the lists on disk and the requests in flight at the start.   *)
(***************************************************************************)
InitIds == <<"a", "b", "c">>

InitRow(id, cols) ==
    [id |-> IF "Place_ID" \in cols THEN id ELSE "",
     hide |-> IF "Hide" \in cols THEN "F" ELSE "",
     call |-> IF "Call" \in cols THEN "F" ELSE "",
     interested |-> IF "Interested" \in cols THEN "F" ELSE "",
     note |-> "", kw |-> 0]

InitRows(n, cols) == [i \in 1..n |-> InitRow(InitIds[i], cols)]

InitLog(k) == [present |-> TRUE, rows |-> [i \in 1..k |-> i]]

InitLogs == {NoLog} \cup {InitLog(k) : k \in 1..MaxLogRows}

\* A list as create_list and the scraper leave it, a list of an older version
\* without the optional columns, and a foreign workbook without Place_ID.
ColVariants == {AllCols, {"Place_ID"}, OptCols}

EmptyDir == [n \in Names |-> NoFile]

Quiet == [faults |-> FALSE, geo |-> {"found"}, pages |-> {<<>>}, tokens |-> {""},
          detail |-> {"ok"}, searchRaise |-> FALSE, fs0 |-> EmptyDir]

UpdRequests(lists) ==
    {[UpdIdle EXCEPT !.pc = "start", !.list = l, !.kind = "row", !.pid = p, !.action = a,
                     !.value = "T"] :
        l \in lists, p \in PlaceIds, a \in {"hide", "call", "interested", "bogus"}}
    \cup
    {[UpdIdle EXCEPT !.pc = "start", !.list = l, !.kind = "note", !.pid = p, !.action = "",
                     !.value = n] : l \in lists, p \in PlaceIds, n \in Notes}

NoReaders == [r \in Readers |-> RdIdle]
NoCreators == [c \in Creators |-> CrtIdle]
NoDeletes == [d \in Deleters |-> DelIdle]
NoQueries == [q \in Queries |-> QryIdle]
NoRuns == [r \in Runs |-> RunIdle]
NoUpdaters == [u \in Updaters |-> UpdIdle]
AllFree == [l \in Lists |-> "free"]

(***************************************************************************)
(* SpecUpd: two concurrent update requests on the two lists.               *)
(***************************************************************************)
InitUpd ==
    /\ \E cols \in ColVariants, log \in InitLogs :
          fs = [n \in Names |->
                  IF n \in Lists THEN MkFile(n, cols, InitRows(MaxInitRows, cols), log)
                  ELSE NoFile]
    /\ locks = AllFree
    /\ del = NoDeletes
    /\ qry = NoQueries
    /\ probe = NoProbe
    /\ \E q1 \in UpdRequests({"l1"}), q2 \in UpdRequests(Lists) :
          upd = [u \in Updaters |-> IF u = "u1" THEN q1 ELSE q2]
    /\ rdr = NoReaders
    /\ crt = NoCreators
    /\ run = NoRuns
    /\ \E ft \in BOOLEAN : cfg = [Quiet EXCEPT !.faults = ft, !.fs0 = fs]

UpdNext(u) ==
    \/ UpdStart(u)
    \/ UpdAcquire(u)
    \/ UpdRead(u)
    \/ UpdReadLog(u)
    \/ UpdWriteTmp(u)
    \/ UpdMove(u)

NextUpd == \E u \in Updaters : UpdNext(u)

SpecUpd == InitUpd /\ [][NextUpd]_vars

CellOf(row, col) ==
    CASE col = "Hide" -> row.hide
      [] col = "Call" -> row.call
      [] col = "Interested" -> row.interested
      [] col = "Note" -> row.note

\* Every row of the list with the request's Place_ID carries the requested value.
ChangeVisible(u) ==
    /\ Readable(fs, upd[u].list)
    /\ \A i \in 1..Len(fs[upd[u].list].rows) :
          fs[upd[u].list].rows[i].id = upd[u].pid
            => CellOf(fs[upd[u].list].rows[i], TargetCol(upd[u])) = upd[u].value

ValidRequest(u) ==
    /\ upd[u].kind = "row" => upd[u].action \in {"hide", "call", "interested"}
    /\ upd[u].pid \in IdsOf(cfg.fs0[upd[u].list].rows)

\* Two finished requests on the same list for two different existing rows.
ConcurrentPair(u, v) ==
    /\ u # v
    /\ upd[u].pc = "done" /\ upd[v].pc = "done"
    /\ upd[u].list = upd[v].list
    /\ upd[u].pid # upd[v].pid
    /\ ValidRequest(u) /\ ValidRequest(v)
    /\ ~cfg.faults

\* C1: two updateField requests on the same list for two different existing
\* rows both succeed, and once both have returned the list shows both changes,
\* in every interleaving (no input/output fault injected).
C1_NoLostUpdate ==
    \A u, v \in Updaters :
        ConcurrentPair(u, v) =>
            /\ upd[u].status = 200 /\ upd[v].status = 200
            /\ ChangeVisible(u) /\ ChangeVisible(v)

C1_Witness ==
    /\ ConcurrentPair("u1", "u2")
    /\ upd["u1"].status = 200 /\ upd["u2"].status = 200
    /\ upd["u1"].kind = "row" /\ upd["u2"].kind = "note"
    /\ ChangeVisible("u1") /\ ChangeVisible("u2")

(***************************************************************************)
(* SpecStore: one scrape run, one update request and one reader on the     *)
(* same list.                                                              *)
(***************************************************************************)
RunNext(r) ==
    \/ RunStart(r)
    \/ RunLoadStore(r)
    \/ RunGeocode(r)
    \/ RunSearchPage(r)
    \/ RunDetail(r)
    \/ RunPersistOpen(r)
    \/ RunPersistWrite(r)

RdNext(r) == RdStart(r) \/ RdRead(r)

CrtNext(c) == CrtStart(c) \/ CrtOpen(c) \/ CrtWrite(c)

DelNext(d) == DelStart(d) \/ DelRemove(d)

QryNext(q) == GetLists(q) \/ SearchesStart(q) \/ SearchesRead(q)

RunRequest(l, nkw, radius, step) ==
    [RunIdle EXCEPT !.pc = "start", !.list = l, !.nkw = nkw, !.radius = radius, !.step = step]

OnlyList(f) == [n \in Names |-> IF n = "l1" THEN f ELSE NoFile]

InitStore ==
    /\ \E n \in 1..MaxInitRows, log \in InitLogs :
          fs = OnlyList(MkFile("l1", AllCols, InitRows(n, AllCols), log))
    /\ locks = AllFree
    /\ del = NoDeletes
    /\ qry = NoQueries
    /\ probe = NoProbe
    /\ \E q \in {x \in UpdRequests({"l1"}) : x.pid = "a" /\ x.action \in {"", "hide"}} :
          upd = [NoUpdaters EXCEPT !["u1"] = q]
    /\ rdr = [NoReaders EXCEPT !["r1"] = [RdIdle EXCEPT !.pc = "start"]]
    /\ crt = NoCreators
    /\ run = [NoRuns EXCEPT !["s1"] = RunRequest("l1", 1, 300, 500)]
    /\ \E ft \in BOOLEAN, sr \in BOOLEAN :
          cfg = [Quiet EXCEPT !.faults = ft, !.searchRaise = sr, !.fs0 = fs,
                              !.pages = {<<>>, <<"c">>, <<"a", "c">>},
                              !.detail = {"ok", "raise"}]

NextStore ==
    \/ \E u \in Updaters : UpdNext(u)
    \/ \E r \in Readers : RdNext(r)
    \/ \E r \in Runs : RunNext(r)

SpecStore == InitStore /\ [][NextStore]_vars

LastEvent(r) == run[r].events[Len(run[r].events)]

\* The run has returned after a Persist that reported success.
Persisted(r) ==
    /\ run[r].pc = "end"
    /\ run[r].final # <<>>
    /\ LastEvent(r).type = "done"

\* The rows the run built are in the list.
NewRecordsVisible(r) ==
    /\ Readable(fs, run[r].list)
    /\ \A i \in 1..Len(run[r].final) : run[r].final[i].id \in IdsOf(fs[run[r].list].rows)

\* C2: Persist is a locked read-modify-write: when a scrape run and an
\* updateField on the same list overlap, then after both have finished the list
\* holds both the field change and the run's new records.
C2_PersistKeepsUpdate ==
    \A r \in Runs, u \in Updaters :
        (Persisted(r) /\ upd[u].pc = "done" /\ upd[u].status = 200
            /\ upd[u].list = run[r].list)
        => (ChangeVisible(u) /\ NewRecordsVisible(r))

\* C4: the _ricerche sheet of a list is the same after any sequence of rewrites
\* (updateField or Persist) as before it.
C4_LogSurvivesRewrites ==
    \A l \in Lists : Readable(fs, l) => fs[l].log = cfg.fs0[l].log

\* C5: a readAll that runs concurrently with a write sees the complete old or
\* the complete new content, never a partially written list.
C5_ReaderSeesWholeList ==
    \A r \in Readers : rdr[r].pc = "done" => rdr[r].saw \in {"none", "ok"}

(***************************************************************************)
(* SpecRuns: two scrape runs, a create request and an update request on    *)
(* the same list, which exists or not when they start.                     *)
(***************************************************************************)
InitRuns ==
    /\ \/ fs = EmptyDir
       \/ \E n \in 0..MaxInitRows, cols \in {AllCols, {"Place_ID"}} :
             fs = OnlyList(MkFile("l1", cols, InitRows(n, cols), NoLog))
    /\ locks = AllFree
    /\ del = NoDeletes
    /\ qry = NoQueries
    /\ probe = NoProbe
    /\ \E q \in {x \in UpdRequests({"l1"}) : x.pid = "a" /\ x.action = "hide"} :
          upd = [NoUpdaters EXCEPT !["u1"] = q]
    /\ rdr = NoReaders
    /\ crt = [NoCreators EXCEPT !["c1"] = [CrtIdle EXCEPT !.pc = "start"]]
    /\ run = [r \in Runs |-> RunRequest("l1", 1, 300, 500)]
    /\ \E ft \in BOOLEAN, sr \in BOOLEAN :
          cfg = [Quiet EXCEPT !.faults = ft, !.searchRaise = sr, !.fs0 = fs,
                              !.pages = {<<"c">>, <<"a", "c">>, <<"b", "b">>}]

NextRuns ==
    \/ \E u \in Updaters : UpdNext(u)
    \/ \E c \in Creators : CrtNext(c)
    \/ \E r \in Runs : RunNext(r)

SpecRuns == InitRuns /\ [][NextRuns]_vars

Distinct(rows) == \A i, j \in 1..Len(rows) : rows[i].id = rows[j].id => i = j

\* C3: in every reachable state no two rows of a list carry the same Place_ID,
\* for any interleaving of create, updateField and scrape runs, two concurrent
\* runs offered the same identifier included.
C3_UniqueIds == \A n \in Names : Distinct(fs[n].rows)

\* Both runs were offered "c", both accepted it, both persisted, and the list
\* is readable with "c" in it.
C3_Witness ==
    /\ \A r \in Runs : Persisted(r) /\ "c" \in IdsOf(run[r].final)
    /\ Readable(fs, "l1")
    /\ "c" \in IdsOf(fs["l1"].rows)

(***************************************************************************)
(* SpecRun: one scrape run alone, over every outcome of the provider.      *)
(***************************************************************************)
\* What the provider may answer: anything on a one-point grid, at most one
\* single-stub page per point on a multi-point grid.
Rich == [faults |-> TRUE, searchRaise |-> TRUE, fs0 |-> EmptyDir,
         geo |-> {"found", "notfound", "raise"},
         pages |-> {<<>>, <<"c">>, <<"a", "c">>, <<"", "b">>},
         tokens |-> {"", "t"},
         detail |-> {"ok", "raise"}]

Thin == [Rich EXCEPT !.pages = {<<>>, <<"c">>, <<"b">>}, !.tokens = {""}, !.geo = {"found"}]

\* (keywords, radius, step, provider): a one-point grid, the smallest
\* multi-point grid (9 points), a zero step.
RunScenarios ==
    {<<k, 300, 500, Rich>> : k \in 0..MaxKeywords}
    \cup {<<k, 800, 500, Thin>> : k \in 1..MaxKeywords}
    \cup {<<1, 100, 0, Thin>>}

InitRun ==
    /\ \/ fs = EmptyDir
       \/ \E n \in 0..MaxInitRows :
             fs = OnlyList(MkFile("l1", AllCols, InitRows(n, AllCols), NoLog))
    /\ locks = AllFree
    /\ del = NoDeletes
    /\ qry = NoQueries
    /\ probe = NoProbe
    /\ upd = NoUpdaters
    /\ rdr = NoReaders
    /\ crt = NoCreators
    /\ \E sc \in RunScenarios :
          /\ run = [NoRuns EXCEPT !["s1"] = RunRequest("l1", sc[1], sc[2], sc[3])]
          /\ cfg = [sc[4] EXCEPT !.fs0 = fs]

NextRun == \E r \in Runs : RunNext(r)

SpecRun == InitRun /\ [][NextRun]_vars

Terminal(e) == e.type \in {"done", "error"}

\* C6: when the write of Persist fails, the run ends with an error event and
\* the list still holds exactly the content it had before Persist began.
C6_FailedPersistKeepsList ==
    \A r \in Runs :
        (run[r].pc = "end" /\ LastEvent(r) = ErrorEv("save"))
            => fs[run[r].list] = cfg.fs0[run[r].list]

\* C7: a run drained to its end has yielded exactly one terminal event (done
\* or error), as its last event; a run still going has yielded none.
C7_OneTerminalEvent ==
    \A r \in Runs :
        LET evs == run[r].events
        IN /\ \A i \in 1..Len(evs) :
                 Terminal(evs[i]) => (i = Len(evs) /\ run[r].pc = "end")
           /\ run[r].pc = "end" => (Len(evs) >= 1 /\ Terminal(evs[Len(evs)]))

\* A run that ended in done after persisting and a run that ended in error
\* are both terminal; the witness is the one that went through every phase.
C7_Witness ==
    /\ run["s1"].pc = "end"
    /\ LastEvent("s1").type = "done"
    /\ run["s1"].final # <<>>
    /\ run["s1"].calls.search >= 2

ProgressOf(r, subtype) ==
    SelectSeq(run[r].events, LAMBDA e : e.type = "progress" /\ e.subtype = subtype)

NonDecreasing(evs) == \A i, j \in 1..Len(evs) : i <= j => evs[i].value <= evs[j].value

\* C8: the progress values of each subtype are integers of 0..100 and never
\* decrease in emission order.
C8_ProgressMonotone ==
    \A r \in Runs : \A st \in {"grid", "details"} :
        LET p == ProgressOf(r, st)
        IN /\ \A i \in 1..Len(p) : p[i].value \in 0..100
           /\ NonDecreasing(p)

\* A finished run over 2 keywords and 9 points that fetched the details of two
\* candidates: 19 grid values and the details values 0, 50, 100.
C8_Witness ==
    /\ run["s1"].pc = "end"
    /\ Len(ProgressOf("s1", "grid")) = 19
    /\ Len(ProgressOf("s1", "details")) = 3
    /\ ProgressOf("s1", "details")[2].value = 50
    /\ ProgressOf("s1", "grid")[10].value = 50

SearchCompleted(r) == \E i \in 1..Len(run[r].events) : run[r].events[i].subtype = "searchdone"

\* C9: when the grid search over N points and K keywords (N*K >= 1) completes,
\* exactly one grid progress event has value 100 and it is the last one, the
\* one of the final pair; while the search runs no pair but the last reports 100.
C9_HundredOnceAtEnd ==
    \A r \in Runs :
        LET p == ProgressOf(r, "grid")
            total == run[r].nkw * run[r].npoints
        IN /\ \A i \in 1..Len(p) : p[i].value = 100 => i = total + 1
           /\ (SearchCompleted(r) /\ total >= 1) =>
                 (Len(p) = total + 1 /\ p[total + 1].value = 100)

C9_Witness ==
    /\ SearchCompleted("s1")
    /\ run["s1"].nkw = 2
    /\ run["s1"].npoints = 9
    /\ Len(ProgressOf("s1", "grid")) = 19

\* C10: when the list does not exist at the start of the run, the run yields a
\* single event, an error, calls the provider not at all and creates or
\* modifies no list.
C10_MissingListOnlyError ==
    \A r \in Runs :
        ~Exists(cfg.fs0, run[r].list) =>
            /\ fs = cfg.fs0
            /\ run[r].calls = NoCalls
            /\ run[r].pc = "end" => run[r].events = <<ErrorEv("nolist")>>
            /\ run[r].pc # "end" => run[r].events = <<>>

C10_Witness ==
    /\ ~Exists(cfg.fs0, "l1")
    /\ run["s1"].pc = "end"
    /\ run["s1"].events = <<ErrorEv("nolist")>>

\* The search ended and accepted no candidate.
NoCandidates(r) == SearchCompleted(r) /\ run[r].led.places = <<>>

\* C11: when the grid search accepts no candidate, the run emits a done event
\* whose payload is the dataset it loaded, unchanged, fetches no details and
\* writes nothing to the list.
C11_NoCandidatesNoWrite ==
    \A r \in Runs :
        NoCandidates(r) =>
            /\ run[r].pc = "end"
            /\ LastEvent(r) = DoneEv(cfg.fs0[run[r].list].rows)
            /\ run[r].calls.details = 0
            /\ run[r].calls.writes = 0
            /\ fs = cfg.fs0

C11_Witness ==
    /\ NoCandidates("s1")
    /\ run["s1"].pc = "end"
    /\ run["s1"].led.dupDb > 0
    /\ run["s1"].led.dupRun > 0
    /\ Len(cfg.fs0["l1"].rows) = 2
    /\ LastEvent("s1").value = 2

\* The detail loop is over and every fetch of it failed.
AllDetailsFailed(r) ==
    /\ run[r].pc \in {"persist", "writing", "end"}
    /\ run[r].led.places # <<>>
    /\ run[r].calls.details = Len(run[r].led.places)
    /\ run[r].final = <<>>

\* C12: when candidates were accepted but no detail fetch produced a record,
\* the run goes on to its done event without writing the list.
C12_NoRecordsNoWrite ==
    \A r \in Runs :
        AllDetailsFailed(r) => run[r].calls.writes = 0 /\ fs = cfg.fs0

\* The detail fetches of the run that failed, and those that succeeded.
DetailFailures(r) ==
    Len(SelectSeq(run[r].events, LAMBDA e : e.type = "log" /\ e.subtype = "detailerr"))

DetailSuccesses(r) == run[r].calls.details - DetailFailures(r)

\* C13: when a run ends with done, the payload has as many rows as the run
\* loaded plus one per candidate whose detail fetch succeeded, and the list
\* has gained exactly that many rows.
C13_DoneCountsRows ==
    \A r \in Runs :
        (run[r].pc = "end" /\ LastEvent(r).type = "done") =>
            LET loaded == Len(cfg.fs0[run[r].list].rows)
            IN /\ Len(LastEvent(r).data) = loaded + DetailSuccesses(r)
               /\ Readable(fs, run[r].list)
               /\ Len(fs[run[r].list].rows) = loaded + DetailSuccesses(r)

C13_Witness ==
    /\ run["s1"].pc = "end"
    /\ LastEvent("s1").type = "done"
    /\ Len(cfg.fs0["l1"].rows) = 1
    /\ DetailSuccesses("s1") = 1
    /\ DetailFailures("s1") = 1
    /\ Len(fs["l1"].rows) = 2

\* A row as a record is initialised: no flag set, no note.
Unflagged(row) ==
    /\ row.hide = "F"
    /\ row.call = "F"
    /\ row.interested = "F"
    /\ row.note = ""

\* C14: every record the detail fetch built and the run appended has hidden,
\* called and interested false and an empty note, in the row of the list and
\* in the payload of the done event.
C14_NewRecordsUnflagged ==
    \A r \in Runs :
        Persisted(r) =>
            LET loaded == Len(run[r].existing.rows)
                payload == LastEvent(r).data
                stored == fs[run[r].list].rows
            IN \A i \in 1..Len(run[r].final) :
                  /\ Unflagged(payload[loaded + i])
                  /\ Readable(fs, run[r].list) => Unflagged(stored[loaded + i])

(***************************************************************************)
(* SpecFun: the ledger on every sequence of stubs and every set of known   *)
(* identifiers, the planner on every radius and step, within the bounds.   *)
(***************************************************************************)
InitFun ==
    /\ fs = EmptyDir
    /\ locks = AllFree
    /\ del = NoDeletes
    /\ qry = NoQueries
    /\ upd = NoUpdaters
    /\ rdr = NoReaders
    /\ crt = NoCreators
    /\ run = NoRuns
    /\ cfg = Quiet
    /\ \/ \E known \in SUBSET PlaceIds :
             probe = [NoProbe EXCEPT !.kind = "ledger", !.known = known]
       \/ \E kind \in {"grid", "search"}, radius \in 0..MaxRadius, step \in 1..MaxStep :
             probe = [NoProbe EXCEPT !.kind = kind, !.radius = radius, !.step = step]

NextFun == LedgerFeed \/ PlanGrid \/ PlanSearch

SpecFun == InitFun /\ [][NextFun]_vars

\* C15: of the stubs with an identifier, the first occurrence of an
\* identifier is accepted when the list does not know it and is a duplicate
\* in the store when it does; every later occurrence is a duplicate in the
\* run, never in the store, also when the list knows the identifier.
C15_LedgerClassifies ==
    probe.kind = "ledger" =>
        /\ Len(probe.outs) = Len(probe.stubs)
        /\ \A i \in 1..Len(probe.stubs) :
              LET id == probe.stubs[i]
                  first == \A j \in 1..(i - 1) : probe.stubs[j] # id
              IN id # "" =>
                    probe.outs[i] = IF ~first THEN "duprun"
                                    ELSE IF id \in probe.known THEN "dupdb"
                                    ELSE "accept"

C15_Witness ==
    /\ probe.kind = "ledger"
    /\ probe.known = {"a"}
    /\ probe.stubs = <<"a", "a", "b", "b">>
    /\ probe.outs = <<"dupdb", "duprun", "accept", "duprun">>

\* The squared planar distance, in metres, of the lattice offset (i, j).
Dist2(i, j, step) == (i * i + j * j) * step * step

\* The number of steps that reach the radius: the smallest n with n * step >= radius.
StepsToReach(radius, step) ==
    CHOOSE n \in 0..radius : n * step >= radius /\ \A k \in 0..(n - 1) : k * step < radius

\* C18: for a radius >= 0 and a step > 0, every point of the planner is a
\* lattice offset (i * step, j * step) not farther from the center than the
\* radius, the center is always among the points, and no lattice offset of
\* the bounding square within the radius is left out.
C18_PlannerCoversDisk ==
    probe.kind = "gridDone" =>
        LET n == StepsToReach(probe.radius, probe.step)
            pts == {probe.points[k] : k \in 1..Len(probe.points)}
            r2 == probe.radius * probe.radius
        IN /\ \A p \in pts : /\ p \in (-n..n) \X (-n..n)
                             /\ Dist2(p[1], p[2], probe.step) <= r2
           /\ <<0, 0>> \in pts
           /\ \A i, j \in -n..n : Dist2(i, j, probe.step) <= r2 => <<i, j>> \in pts
           /\ Cardinality(pts) = Len(probe.points)

C18_Witness ==
    /\ probe.kind = "gridDone"
    /\ probe.radius = 10
    /\ probe.step = 5
    /\ Len(probe.points) = 13
    /\ \E k \in 1..Len(probe.points) : probe.points[k] = <<2, 0>>
    /\ \A k \in 1..Len(probe.points) : probe.points[k] # <<2, 1>>

\* int(1.5 * step): the integer m with m <= 1.5 * step < m + 1.
OneAndAHalf(step) == CHOOSE m \in 0..(2 * step) : 2 * m <= 3 * step /\ 3 * step < 2 * m + 2

\* C19: when the radius is 0 or at most int(1.5 * step), the run searches a
\* grid of the one point of the center with the requested radius; otherwise
\* it searches the planner's grid of several points with radius int(1.5 * step).
C19_SmallRadiusOnePoint ==
    probe.kind = "searchDone" =>
        IF probe.radius = 0 \/ probe.radius <= OneAndAHalf(probe.step)
        THEN /\ probe.points = <<(<<0, 0>>)>>
             /\ probe.query = probe.radius
        ELSE /\ probe.points = generate_grid_points(probe.radius, probe.step)
             /\ Len(probe.points) > 1
             /\ probe.query = OneAndAHalf(probe.step)

C19_Witness ==
    /\ probe.kind = "searchDone"
    /\ probe.step = 5
    /\ probe.radius = 7
    /\ probe.query = 7
    /\ probe.points = <<(<<0, 0>>)>>

\* The detail fetches that gave no record.
FailedFetches(r) == run[r].calls.details - Len(run[r].final)

\* The candidates whose fetch the run logged as failed.
FailedIds(r) ==
    {run[r].led.places[e.value + 1].id :
        e \in {run[r].events[k] : k \in 1..Len(run[r].events)} \cap
              {LogEv("detailerr", i) : i \in 0..Len(run[r].led.places)}}

\* C16: a detail fetch that fails does not end the run: the run logs it, goes
\* on with the next candidate, fetches no candidate twice and ends with done
\* (unless the write of Persist itself fails); the candidate is neither in
\* the list nor in the payload of the done event.
C16_DetailFailureNotFatal ==
    \A r \in Runs :
        FailedFetches(r) > 0 =>
            /\ DetailFailures(r) = FailedFetches(r)
            /\ Cardinality(FailedIds(r)) = FailedFetches(r)
            /\ run[r].calls.details <= Len(run[r].led.places)
            /\ run[r].pc \in {"details", "persist", "writing", "end"}
            /\ run[r].pc = "details" <=> run[r].calls.details < Len(run[r].led.places)
            /\ run[r].pc = "details" => run[r].di = run[r].calls.details
            /\ FailedIds(r) \cap IdsOf(run[r].final) = {}
            /\ Readable(fs, run[r].list) => FailedIds(r) \cap IdsOf(fs[run[r].list].rows) = {}
            /\ run[r].pc = "end" =>
                  \/ LastEvent(r) = ErrorEv("save")
                  \/ /\ LastEvent(r).type = "done"
                     /\ FailedIds(r) \cap IdsOf(LastEvent(r).data) = {}

C16_Witness ==
    /\ run["s1"].pc = "end"
    /\ LastEvent("s1").type = "done"
    /\ Len(run["s1"].led.places) = 2
    /\ FailedIds("s1") = {run["s1"].led.places[1].id}
    /\ IdsOf(run["s1"].final) = {run["s1"].led.places[2].id}
    /\ IdsOf(fs["l1"].rows) = IdsOf(cfg.fs0["l1"].rows) \cup IdsOf(run["s1"].final)

\* C17: when the provider finds no place for the city, or the geocoding call
\* raises, the run ends with an error event, makes no search call and no
\* detail fetch, and leaves the list as it was.
C17_GeocodeFailureOnlyError ==
    \A r \in Runs :
        run[r].geo \in {"notfound", "raise"} =>
            /\ run[r].pc = "end"
            /\ LastEvent(r).type = "error"
            /\ \A k \in 1..(Len(run[r].events) - 1) : ~Terminal(run[r].events[k])
            /\ run[r].calls = [NoCalls EXCEPT !.geocode = 1]
            /\ fs = cfg.fs0

C17_Witness ==
    /\ run["s1"].geo = "notfound"
    /\ run["s1"].pc = "end"
    /\ LastEvent("s1") = ErrorEv("geocode")
    /\ run["s1"].nkw = 2
    /\ Len(cfg.fs0["l1"].rows) = 2

(***************************************************************************)
(* SpecUpdAlone: one update request, on a list that may not exist, for a   *)
(* row that may not exist, with an action that may not be one.             *)
(***************************************************************************)
InitUpdAlone ==
    /\ \/ fs = EmptyDir
       \/ \E cols \in ColVariants, log \in InitLogs, n \in 0..MaxInitRows :
             fs = OnlyList(MkFile("l1", cols, InitRows(n, cols), log))
    /\ locks = AllFree
    /\ del = NoDeletes
    /\ qry = NoQueries
    /\ probe = NoProbe
    /\ \E q \in UpdRequests({"l1"}) : upd = [NoUpdaters EXCEPT !["u1"] = q]
    /\ rdr = NoReaders
    /\ crt = NoCreators
    /\ run = NoRuns
    /\ \E faults \in BOOLEAN : cfg = [Quiet EXCEPT !.faults = faults, !.fs0 = fs]

SpecUpdAlone == InitUpdAlone /\ [][NextUpd]_vars

ListAbsent(u) == ~Exists(cfg.fs0, upd[u].list)

InvalidField(u) == upd[u].kind = "row" /\ upd[u].action \notin {"hide", "call", "interested"}

RowAbsent(u) == upd[u].pid \notin IdsOf(cfg.fs0[upd[u].list].rows)

\* C20: an update fails with 404 (NotFound) when the list does not exist or,
\* in a list with the identifier column, no row has the identifier, and with
\* 400 (InvalidField) when the field is not one that can be set; after each
\* of these failures the directory holds exactly what it held before the call.
C20_UpdateFailuresLeaveList ==
    \A u \in Updaters :
        upd[u].pc = "done" =>
            /\ ListAbsent(u) => upd[u].status = 404
            /\ (~ListAbsent(u) /\ InvalidField(u)) => upd[u].status = 400
            /\ ( /\ ~ListAbsent(u) /\ ~InvalidField(u)
                 /\ "Place_ID" \in cfg.fs0[upd[u].list].cols
                 /\ RowAbsent(u) ) => upd[u].status = 404
            /\ upd[u].status = 400 => InvalidField(u)
            /\ upd[u].status = 404 => ListAbsent(u) \/ RowAbsent(u)
            /\ upd[u].status \in {400, 404} => fs = cfg.fs0

C20_Witness ==
    /\ upd["u1"].pc = "done"
    /\ upd["u1"].status = 404
    /\ ~ListAbsent("u1")
    /\ ~InvalidField("u1")
    /\ Len(cfg.fs0["l1"].rows) = 2
    /\ RowAbsent("u1")
    /\ cfg.fs0["l1"].log.present
    /\ fs = cfg.fs0

(***************************************************************************)
(* SpecCreate: two create requests, an update request and a scrape run on  *)
(* the same name, which is a list or not when they start.                  *)
(***************************************************************************)
InitCreate ==
    /\ \/ fs = EmptyDir
       \/ \E n \in 0..MaxInitRows :
             fs = OnlyList(MkFile("l1", AllCols, InitRows(n, AllCols), NoLog))
    /\ locks = AllFree
    /\ del = NoDeletes
    /\ qry = NoQueries
    /\ probe = NoProbe
    /\ \E q \in {x \in UpdRequests({"l1"}) : x.pid = "c" /\ x.action = "hide"} :
          upd = [NoUpdaters EXCEPT !["u1"] = q]
    /\ rdr = NoReaders
    /\ crt = [c \in Creators |-> [CrtIdle EXCEPT !.pc = "start"]]
    /\ run = [NoRuns EXCEPT !["s1"] = RunRequest("l1", 1, 300, 500)]
    /\ \E ft \in BOOLEAN : cfg = [Quiet EXCEPT !.faults = ft, !.fs0 = fs, !.pages = {<<"c">>}]

NextCreate ==
    \/ \E u \in Updaters : UpdNext(u)
    \/ \E c \in Creators : CrtNext(c)
    \/ \E r \in Runs : RunNext(r)

SpecCreate == InitCreate /\ [][NextCreate]_vars

\* C21: a create on a name that exists answers 409 (AlreadyExists), and no
\* step of a create erases records of the list, whatever creates, updates
\* and scrape runs on the same name are interleaved with it.
C21_CreateNeverErases ==
    [][\A c \in Creators :
          crt'[c] # crt[c] =>
             /\ (crt[c].pc = "start" /\ Exists(fs, crt[c].list)) => crt'[c].status = 409
             /\ (Readable(fs, crt[c].list) /\ fs[crt[c].list].rows # <<>>) =>
                   /\ Readable(fs', crt[c].list)
                   /\ fs'[crt[c].list].rows = fs[crt[c].list].rows]_vars

(***************************************************************************)
(* SpecDelete: a delete request, an update request and a scrape run on     *)
(* the same list, with no create request at all.                           *)
(***************************************************************************)
InitDelete ==
    /\ \/ fs = EmptyDir
       \/ \E n \in 1..MaxInitRows, log \in InitLogs :
             fs = OnlyList(MkFile("l1", AllCols, InitRows(n, AllCols), log))
    /\ locks = AllFree
    /\ del = [NoDeletes EXCEPT !["d1"] = [DelIdle EXCEPT !.pc = "start"]]
    /\ qry = NoQueries
    /\ probe = NoProbe
    /\ \E q \in {x \in UpdRequests({"l1"}) : x.pid = "a" /\ x.action \in {"", "hide"}} :
          upd = [NoUpdaters EXCEPT !["u1"] = q]
    /\ rdr = NoReaders
    /\ crt = NoCreators
    /\ run = [NoRuns EXCEPT !["s1"] = RunRequest("l1", 1, 300, 500)]
    /\ \E ft \in BOOLEAN :
          cfg = [Quiet EXCEPT !.faults = ft, !.fs0 = fs, !.pages = {<<>>, <<"c">>}]

NextDelete ==
    \/ \E d \in Deleters : DelNext(d)
    \/ \E u \in Updaters : UpdNext(u)
    \/ \E r \in Runs : RunNext(r)

SpecDelete == InitDelete /\ [][NextDelete]_vars

\* C22: a delete of an absent list answers 404; once a delete has answered
\* with success the list does not exist again as long as no create is
\* issued, whatever update or scrape run on the list was in flight.
C22_DeleteIsFinal ==
    \A d \in Deleters :
        del[d].pc = "done" =>
            /\ ~Exists(cfg.fs0, del[d].list) => del[d].status = 404
            /\ del[d].status = 200 => ~Exists(fs, del[d].list)

(***************************************************************************)
(* SpecQuery: a get_lists or a get_searches request while an update        *)
(* request rewrites the list, which exists or not when they start.         *)
(***************************************************************************)
InitQuery ==
    /\ \/ fs = EmptyDir
       \/ \E n \in 1..MaxInitRows, log \in InitLogs :
             fs = OnlyList(MkFile("l1", AllCols, InitRows(n, AllCols), log))
    /\ locks = AllFree
    /\ del = NoDeletes
    /\ \E kind \in {"names", "searches"} :
          qry = [NoQueries EXCEPT !["q1"] = [QryIdle EXCEPT !.pc = "start", !.kind = kind]]
    /\ probe = NoProbe
    /\ \E q \in {x \in UpdRequests({"l1"}) : x.pid \in {"a", "c"}} :
          upd = [NoUpdaters EXCEPT !["u1"] = q]
    /\ rdr = NoReaders
    /\ crt = NoCreators
    /\ run = NoRuns
    /\ \E ft \in BOOLEAN : cfg = [Quiet EXCEPT !.faults = ft, !.fs0 = fs]

NextQuery ==
    \/ \E q \in Queries : QryNext(q)
    \/ \E u \in Updaters : UpdNext(u)

SpecQuery == InitQuery /\ [][NextQuery]_vars

\* The rows of the search log the list had when the scenario started.
LogRows0(l) == IF cfg.fs0[l].log.present THEN cfg.fs0[l].log.rows ELSE <<>>

SearchesDone(q) == qry[q].kind = "searches" /\ qry[q].pc = "done"

\* C23 as stated: reading the search log never answers with an error; it
\* gives the entries in order when the log exists and the empty sequence
\* when it does not.
C23_SearchLogNeverFails ==
    \A q \in Queries :
        SearchesDone(q) => qry[q].status = 200 /\ qry[q].rows = LogRows0(qry[q].list)

\* C23 amended: reading the search log of a list that exists never answers
\* with an error: it gives the entries in order when the log exists and the
\* empty sequence when it does not; for a list that does not exist the
\* answer is 404.
C23_SearchLogOfExistingList ==
    \A q \in Queries :
        SearchesDone(q) =>
            IF Exists(cfg.fs0, qry[q].list)
            THEN qry[q].status = 200 /\ qry[q].rows = LogRows0(qry[q].list)
            ELSE qry[q].status = 404 /\ qry[q].rows = <<>>

C23_Witness ==
    /\ SearchesDone("q1")
    /\ qry["q1"].status = 200
    /\ qry["q1"].rows = <<1, 2>>
    /\ upd["u1"].status = 200

\* C29: the names that get_lists returns are names of lists that were
\* created and not deleted; never the name of the temporary file of an
\* update that is writing.
C29_ListsOnlyLists ==
    \A q \in Queries :
        (qry[q].kind = "names" /\ qry[q].pc = "done") =>
            /\ qry[q].names \subseteq Lists
            /\ qry[q].names = {l \in Lists : Exists(cfg.fs0, l)}

(***************************************************************************)
(* SpecPages: one run whose provider answers every page with any of two    *)
(* page tokens or none, on the one-point grid and on the nine-point grid.  *)
(***************************************************************************)
InitPages ==
    /\ fs = OnlyList(MkFile("l1", AllCols, InitRows(MaxInitRows, AllCols), NoLog))
    /\ locks = AllFree
    /\ del = NoDeletes
    /\ qry = NoQueries
    /\ probe = NoProbe
    /\ upd = NoUpdaters
    /\ rdr = NoReaders
    /\ crt = NoCreators
    /\ \E sc \in {<<k, 300, 500>> : k \in 1..MaxKeywords} \cup {<<1, 800, 500>>} :
          run = [NoRuns EXCEPT !["s1"] = RunRequest("l1", sc[1], sc[2], sc[3])]
    /\ cfg = [Quiet EXCEPT !.fs0 = fs, !.searchRaise = TRUE, !.tokens = {"", "t", "u"},
                           !.pages = {<<>>, <<"c">>}]

SpecPages == InitPages /\ [][NextRun]_vars

\* C24: every (keyword, point) pair makes between 1 and 3 places_nearby
\* calls; the first carries no page token, each later one carries the token
\* the call before it returned and follows the pause; the pair ends as soon
\* as an answer has no token or 3 pages were fetched.
C24_Pagination ==
    \A r \in Runs :
        LET q == run[r].reqs
            n == Len(q)
        IN /\ n <= 3
           /\ run[r].calls.search > 0 <=> n >= 1
           /\ \A i \in 1..n :
                 /\ i = 1 <=> q[i].sent = ""
                 /\ q[i].paused <=> i > 1
                 /\ i > 1 => q[i].sent = q[i - 1].got
                 /\ i < n => q[i].got \notin {"", "raise"}
           /\ (run[r].pc = "search" /\ run[r].pages > 0) =>
                 n = run[r].pages /\ n < 3 /\ q[n].got \notin {"", "raise"}
           /\ (run[r].pc \in {"search", "details", "persist", "writing"}
                  /\ run[r].pages = 0 /\ n > 0) => (q[n].got = "" \/ n = 3)
           /\ run[r].gridStep <= run[r].calls.search
           /\ run[r].calls.search <= 3 * (run[r].gridStep + 1)

C24_Witness ==
    /\ run["s1"].pc = "search"
    /\ run["s1"].gridStep = 1
    /\ run["s1"].pages = 0
    /\ Len(run["s1"].reqs) = 3
    /\ run["s1"].reqs[1].got = "t"
    /\ run["s1"].reqs[2].sent = "t"
    /\ run["s1"].reqs[2].got = "u"
    /\ run["s1"].reqs[3] = [sent |-> "u", paused |-> TRUE, got |-> "t"]

(***************************************************************************)
(* SpecUpdFair: two update requests, each of which goes on as long as it   *)
(* can take a step (a thread that is not blocked runs).                    *)
(***************************************************************************)
InitUpdFair ==
    /\ \E cols \in ColVariants :
          fs = [n \in Names |->
                  IF n \in Lists THEN MkFile(n, cols, InitRows(1, cols), NoLog) ELSE NoFile]
    /\ locks = AllFree
    /\ del = NoDeletes
    /\ qry = NoQueries
    /\ probe = NoProbe
    /\ \E q1 \in {x \in UpdRequests({"l1"}) : x.pid \in {"a", "c"} /\ x.action \in {"", "hide"}},
          q2 \in {x \in UpdRequests(Lists) : x.pid \in {"a", "c"} /\ x.action \in {"", "hide"}} :
          upd = [u \in Updaters |-> IF u = "u1" THEN q1 ELSE q2]
    /\ rdr = NoReaders
    /\ crt = NoCreators
    /\ run = NoRuns
    /\ \E ft \in BOOLEAN : cfg = [Quiet EXCEPT !.faults = ft, !.fs0 = fs]

SpecUpdFair == InitUpdFair /\ [][NextUpd]_vars /\ \A u \in Updaters : WF_vars(UpdNext(u))

\* The request holds no lock.
HoldsNoLock(u) == \A l \in Lists : locks[l] # u

\* C25: an update that has returned, with success, 404 for the row, 500 for
\* a missing Place_ID column or 500 for a failed write, holds no lock; a
\* request that waits for the lock of a list gets it, and every request
\* returns.
C25_LockAlwaysReleased ==
    /\ [](\A u \in Updaters : upd[u].pc \in {"start", "lock", "done"} => HoldsNoLock(u))
    /\ \A u \in Updaters : (upd[u].pc = "lock") ~> (locks[upd[u].list] = u)
    /\ \A u \in Updaters : <>(upd[u].pc = "done")

C25_Witness ==
    /\ upd["u1"].pc = "done"
    /\ upd["u1"].status = 404
    /\ upd["u1"].action = "hide"
    /\ upd["u2"].pc = "lock"
    /\ upd["u2"].list = "l1"
    /\ locks["l1"] = "free"
    /\ "Place_ID" \in cfg.fs0["l1"].cols

(***************************************************************************)
(* SpecAbandon: one run whose consumer may stop draining the events: the   *)
(* generator is then closed at the yield where it is suspended.            *)
(***************************************************************************)
\* main.py lines 52-56: event_generator stops iterating run_scraping.  The
\* run is suspended at a yield: everywhere but inside to_excel.
RunAbandon(r) ==
    /\ run[r].pc \in {"load", "geocode", "search", "details", "persist"}
    /\ run' = [run EXCEPT ![r].pc = "closed"]
    /\ UNCHANGED <<fs, locks, upd, rdr, crt, cfg, probe, del, qry>>

NextAbandon == \E r \in Runs : RunNext(r) \/ RunAbandon(r)

SpecAbandon == InitRun /\ [][NextAbandon]_vars

\* The list as Persist leaves it when it completes.
Merged(r) ==
    LET df == Concat(run[r].existing, run[r].final)
    IN [cfg.fs0[run[r].list] EXCEPT !.cols = df.cols, !.rows = df.rows, !.log = NoLog]

\* C26: a run that its consumer stopped draining before Persist leaves the
\* list as it was; and whenever the run is suspended or over, the list holds
\* the content it had before Persist or the complete merged content.
C26_PersistAllOrNothing ==
    \A r \in Runs :
        /\ run[r].pc = "closed" => fs = cfg.fs0
        /\ run[r].pc \notin {"off", "start", "writing"} =>
              \/ fs[run[r].list] = cfg.fs0[run[r].list]
              \/ fs[run[r].list] = Merged(r)

\* The stubs that carry an identifier.
Identified(stubs) == SelectSeq(stubs, LAMBDA id : id # "")

\* C27: at every point of the search, the accepted candidates and the two
\* duplicate counters add up to the number of stubs with an identifier
\* processed so far; the accepted candidates have pairwise different
\* identifiers and none of them is known to the list.
C27_TalliesPartition ==
    probe.kind = "ledger" =>
        LET led == probe.led
            n == Len(led.places)
        IN /\ n + led.dupRun + led.dupDb = Len(Identified(probe.stubs))
           /\ \A i, j \in 1..n : led.places[i].id = led.places[j].id => i = j
           /\ \A i \in 1..n : led.places[i].id \notin probe.known

C27_Witness ==
    /\ probe.kind = "ledger"
    /\ probe.known = {"a"}
    /\ probe.stubs = <<"a", "b", "", "b">>
    /\ Len(probe.led.places) = 1
    /\ probe.led.dupRun = 1
    /\ probe.led.dupDb = 1

\* The identifiers of the accepted candidates whose detail fetch succeeded,
\* in the order of acceptance.
FetchedIds(r) ==
    LET ok == SelectSeq(run[r].led.places, LAMBDA p : p.id \notin FailedIds(r))
    IN [i \in 1..Len(ok) |-> ok[i].id]

\* C28: the rows that Persist writes and the done event carries are the rows
\* loaded from the list, in their order and with their values, followed by
\* the new records in the order in which their candidates were accepted.
C28_MergedKeepsOrder ==
    \A r \in Runs :
        (run[r].pc = "end" /\ LastEvent(r).type = "done" /\ run[r].calls.writes > 0) =>
            LET loaded == cfg.fs0[run[r].list].rows
                payload == LastEvent(r).data
                n == Len(loaded)
            IN /\ Len(payload) = n + Len(FetchedIds(r))
               /\ SubSeq(payload, 1, n) = loaded
               /\ [i \in 1..(Len(payload) - n) |-> payload[n + i].id] = FetchedIds(r)
               /\ Readable(fs, run[r].list)
               /\ fs[run[r].list].rows = payload

C28_Witness ==
    /\ run["s1"].pc = "end"
    /\ LastEvent("s1").type = "done"
    /\ Len(cfg.fs0["l1"].rows) = 1
    /\ FetchedIds("s1") = <<"c", "b">>
    /\ IdsOf(SubSeq(fs["l1"].rows, 2, 3)) = {"b", "c"}
    /\ fs["l1"].rows[1] = cfg.fs0["l1"].rows[1]

(***************************************************************************)
(* SpecRunFair: one run with a consumer that keeps draining and a provider *)
(* whose calls return or raise: the run takes its next step.               *)
(***************************************************************************)
InitRunFair ==
    /\ \/ fs = EmptyDir
       \/ fs = OnlyList(MkFile("l1", AllCols, InitRows(1, AllCols), NoLog))
    /\ locks = AllFree
    /\ del = NoDeletes
    /\ qry = NoQueries
    /\ probe = NoProbe
    /\ upd = NoUpdaters
    /\ rdr = NoReaders
    /\ crt = NoCreators
    /\ \E sc \in {<<k, 300, 500, Rich>> : k \in 0..2}
                  \cup {<<1, 800, 500, Thin>>, <<1, 100, 0, Thin>>} :
          /\ run = [NoRuns EXCEPT !["s1"] = RunRequest("l1", sc[1], sc[2], sc[3])]
          /\ cfg = [sc[4] EXCEPT !.fs0 = fs]

SpecRunFair == InitRunFair /\ [][NextRun]_vars /\ \A r \in Runs : WF_vars(RunNext(r))

\* The run has ended with a terminal event.
EndedTerminal(r) == run[r].pc = "end" /\ Terminal(LastEvent(r))

SearchBudget(r) == 3 * run[r].nkw * run[r].npoints

\* C30 as stated: every run ends with a terminal event, after at most
\* 3 * keywords * points search calls and exactly one detail fetch for each
\* accepted candidate.
C30_TerminatesOneFetchEach ==
    /\ \A r \in Runs : (run[r].pc # "off") ~> EndedTerminal(r)
    /\ [](\A r \in Runs : run[r].calls.search <= SearchBudget(r))
    /\ [](\A r \in Runs : run[r].pc = "end" => run[r].calls.details = Len(run[r].led.places))

\* C30 amended: every run ends with a terminal event, after at most
\* 3 * keywords * points search calls and at most one detail fetch for each
\* accepted candidate: exactly one each when the grid search completed, none
\* when the run ended before.
C30_TerminatesWithinBudget ==
    /\ \A r \in Runs : (run[r].pc # "off") ~> EndedTerminal(r)
    /\ [](\A r \in Runs : run[r].calls.search <= SearchBudget(r))
    /\ [](\A r \in Runs :
            /\ run[r].calls.details <= Len(run[r].led.places)
            /\ run[r].pc = "end" =>
                  run[r].calls.details = IF SearchCompleted(r) THEN Len(run[r].led.places) ELSE 0)

C30_Witness ==
    /\ EndedTerminal("s1")
    /\ run["s1"].nkw = 2
    /\ run["s1"].calls.search = SearchBudget("s1")
    /\ run["s1"].calls.search = 6
    /\ Len(run["s1"].led.places) = 2
    /\ run["s1"].calls.details = 2

====
